---------------------------- MODULE Spec2Model ----------------------------
(***************************************************************************)
(* A model of the LaTeX rendering pipeline of src/latex_renderer.py:       *)
(* the Segmenter (split_latex_into_lines), the Ink-Bounds Scanner          *)
(* (get_precise_ink_bbox), auto_crop_image, the Compositor                 *)
(* (stitch_images_vertically) and the orchestrator                         *)
(* (process_and_render_latex), one run or two concurrent runs, and of the   *)
(* message handler's _render_and_send of src/main.py.                      *)
(*                                                                         *)
(* A string is a sequence of one-character strings; " " stands for every   *)
(* whitespace character that str.strip() removes.                          *)
(***************************************************************************)
EXTENDS Integers, Sequences, FiniteSets, TLC

VARIABLES
    \* ---- Segmenter (split_latex_into_lines) ----
    latex_input,     \* the input string of one call
    delimiter,       \* the delimiter of that call
    lines_final,     \* the list the call returned
    split_pc         \* "call" before the call, "returned" after it

splitVars == <<latex_input, delimiter, lines_final, split_pc>>

VARIABLES
    \* ---- Ink-Bounds Scanner and auto_crop_image ----
    img,                   \* the image file at image_path: width, height, pixels
    background_color_str,  \* the background the caller names
    padding,               \* auto_crop_image's padding
    bbox,                  \* what get_precise_ink_bbox returned
    crop_sizes,            \* <<width, height>> of the file after each auto_crop_image
    crop_ok,               \* what the last auto_crop_image returned
    img_pc                 \* "new", "scanned" or "cropped"

imgVars == <<img, background_color_str, padding, bbox, crop_sizes, crop_ok, img_pc>>

VARIABLES
    \* ---- Compositor (stitch_images_vertically) ----
    image_paths,     \* per listed path, what Image.open finds there
    bgcolor_fill,    \* the background handed to the Compositor
    line_spacing,    \* the spacing handed to the Compositor
    out_writable,    \* whether a save to output_filename succeeds
    stitched,        \* the call's effects: canvas, pastes, output file, raised
    stitch_pc        \* "call" before the call, "returned" after it

stitchVars == <<image_paths, bgcolor_fill, line_spacing, out_writable, stitched, stitch_pc>>

VARIABLES
    \* ---- Orchestrator (process_and_render_latex), per run ----
    runs,                    \* the runs under way (one, or two concurrent)
    pc,                      \* each run's position in process_and_render_latex
    full_latex_input,        \* each run's input
    latex_lines,             \* each run's segments
    temp_dir_base,           \* each run's base directory
    temp_dir,                \* each run's workspace directory
    loop_i,                  \* each run's loop index i
    success,                 \* what the run's last render returned
    temp_image_paths,        \* each run's collected fragment paths
    all_renders_successful,  \* each run's flag of that name
    output_file,             \* the file at each run's output_filename
    \* ---- configuration and file system, shared ----
    bgcolor,                 \* the configured background colour
    cleanup_temp_files,      \* the configured cleanup switch
    output_writable,         \* whether a save to an output_filename succeeds
    dirs,                    \* the directories that exist
    files,                   \* the fragment files that exist
    \* ---- what each run has done (observation only) ----
    made_dirs,               \* the directories each run created
    render_calls,            \* how many fragments each run rendered
    stitch_calls,            \* the path lists each run handed to the Compositor
    io_log,                  \* who wrote and who opened which fragment path
    clobbered                \* runs that lost a fragment to another run's cleanup

runVars == <<runs, pc, full_latex_input, latex_lines, temp_dir_base, temp_dir,
             loop_i, success, temp_image_paths, all_renders_successful,
             output_file, bgcolor, cleanup_temp_files, output_writable, dirs,
             files, made_dirs, render_calls, stitch_calls, io_log, clobbered>>

VARIABLES
    \* ---- _render_and_send (src/main.py), one call ----
    send_pc,           \* "call", "awaiting" the executor, or "returned"
    send_latex_input,  \* the call's latex_input
    replies            \* the results the call has yielded, in order

sendVars == <<send_pc, send_latex_input, replies>>

VARIABLES
    \* ---- render_single_latex_line, one call ----
    latex_line_string,          \* the segment
    delimiter_char,             \* the delimiter
    raster,                     \* the image the figure rasterizes to (savefig)
    line_bgcolor,               \* the call's bgcolor
    autocrop_padding,           \* the call's autocrop_padding
    max_delimiter_line_height,  \* the call's max_delimiter_line_height
    fragment,                   \* the file at output_filename
    cropped_size,               \* <<width, height>> of the file after auto_crop_image
    resize_failed,              \* the delimiter resize was tried and raised
    render_ret,                 \* what the call returned
    render_pc                   \* "call", "returned" or "raised"

renderVars == <<latex_line_string, delimiter_char, raster, line_bgcolor,
                autocrop_padding, max_delimiter_line_height, fragment,
                cropped_size, resize_failed, render_ret, render_pc>>

vars == <<splitVars, imgVars, stitchVars, runVars, sendVars, renderVars>>

-----------------------------------------------------------------------------
(* Bounds of the model                                                     *)

\* the longest input string handed to the Segmenter
MaxLen == 5

\* the largest number of pixels (width * height) of a scanned image
MaxArea == 6

\* the longest list of paths handed to the Compositor
MaxPaths == 3

\* the characters of the inputs: a letter, the comma and a blank
Chars == {"a", ",", " "}

\* the delimiters tried: the default ",", a two-character one that overlaps
\* itself, one that does not, a blank one, one with a trailing blank, and
\* the empty string
Delims == {<<",">>, <<",", ",">>, <<"a", ",">>, <<" ">>, <<",", " ">>, <<>>}

RECURSIVE StrsUpTo(_)
StrsUpTo(n) ==
    IF n = 0 THEN {<<>>}
    ELSE LET shorter == StrsUpTo(n - 1)
         IN  shorter \cup {Append(s, c) : s \in {t \in shorter : Len(t) = n - 1}, c \in Chars}

Inputs == StrsUpTo(MaxLen)

-----------------------------------------------------------------------------
(* Values the components share, and each component's variables at rest     *)

\* Python's None, for a result that is a tuple otherwise
None == <<>>

\* the values the variables of the other components keep while the
\* Segmenter is exercised, and so on for each component
IdleSplit ==
    /\ latex_input = <<>>
    /\ delimiter = <<",">>
    /\ lines_final = <<>>
    /\ split_pc = "idle"

IdleImg ==
    /\ img = [width |-> 0, height |-> 0, pixels |-> <<>>]
    /\ background_color_str = "white"
    /\ padding = 0
    /\ bbox = None
    /\ crop_sizes = <<>>
    /\ crop_ok = TRUE
    /\ img_pc = "idle"

\* a file of the file system: absent, or an image of some kind and size
NoFile == [kind |-> "absent", width |-> 0, height |-> 0]

NoStitch == [canvas |-> None, pastes |-> <<>>, output |-> NoFile, raised |-> FALSE]

IdleStitch ==
    /\ image_paths = <<>>
    /\ bgcolor_fill = "white"
    /\ line_spacing = 0
    /\ out_writable = TRUE
    /\ stitched = NoStitch
    /\ stitch_pc = "idle"

\* the run identifiers: uuid4 gives each run a name of its own
Runs == {1, 2}

\* directories: the current directory ".", "temp_latex_renders" (root
\* "base"), and the subdirectory named after run `id` in either
Dir(root, id) == [root |-> root, id |-> id]
Cwd == Dir(".", 0)
Base == Dir("base", 0)

IdleRun ==
    /\ runs = {}
    /\ pc = [r \in Runs |-> "idle"]
    /\ full_latex_input = [r \in Runs |-> <<>>]
    /\ latex_lines = [r \in Runs |-> <<>>]
    /\ temp_dir_base = [r \in Runs |-> Base]
    /\ temp_dir = [r \in Runs |-> Base]
    /\ loop_i = [r \in Runs |-> 0]
    /\ success = [r \in Runs |-> FALSE]
    /\ temp_image_paths = [r \in Runs |-> <<>>]
    /\ all_renders_successful = [r \in Runs |-> TRUE]
    /\ output_file = [r \in Runs |-> NoFile]
    /\ bgcolor = "white"
    /\ cleanup_temp_files = TRUE
    /\ output_writable = TRUE
    /\ dirs = {Cwd}
    /\ files = {}
    /\ made_dirs = [r \in Runs |-> {}]
    /\ render_calls = [r \in Runs |-> 0]
    /\ stitch_calls = [r \in Runs |-> <<>>]
    /\ io_log = {}
    /\ clobbered = {}

IdleSend ==
    /\ send_pc = "idle"
    /\ send_latex_input = <<>>
    /\ replies = <<>>

IdleRender ==
    /\ latex_line_string = <<>>
    /\ delimiter_char = <<",">>
    /\ raster = [width |-> 0, height |-> 0, pixels |-> <<>>]
    /\ line_bgcolor = "white"
    /\ autocrop_padding = 0
    /\ max_delimiter_line_height = 2
    /\ fragment = NoFile
    /\ cropped_size = None
    /\ resize_failed = FALSE
    /\ render_ret = FALSE
    /\ render_pc = "idle"

-----------------------------------------------------------------------------
(* Strings                                                                 *)

IsSpace(c) == c = " "

\* str.lstrip() / str.rstrip() / str.strip()
RECURSIVE LStrip(_)
LStrip(s) == IF s # <<>> /\ IsSpace(Head(s)) THEN LStrip(Tail(s)) ELSE s

RECURSIVE RStrip(_)
RStrip(s) ==
    IF s # <<>> /\ IsSpace(s[Len(s)]) THEN RStrip(SubSeq(s, 1, Len(s) - 1)) ELSE s

Strip(s) == RStrip(LStrip(s))

\* d occurs in s at position k (1-based)
OccursAt(s, d, k) ==
    /\ k >= 1
    /\ k + Len(d) - 1 <= Len(s)
    /\ SubSeq(s, k, k + Len(d) - 1) = d

Occurs(s, d) == \E k \in 1..(Len(s) + 1) : OccursAt(s, d, k)

\* the position of the leftmost occurrence of d in s
FirstOcc(s, d) ==
    CHOOSE k \in 1..(Len(s) + 1) :
        OccursAt(s, d, k) /\ \A j \in 1..(k - 1) : ~OccursAt(s, d, j)

\* re.split(f'({re.escape(delimiter)})', s) for a non-empty delimiter: the
\* text before each leftmost non-overlapping match, the match, ..., the rest
RECURSIVE ReSplitNonEmpty(_, _)
ReSplitNonEmpty(s, d) ==
    IF ~Occurs(s, d) THEN <<s>>
    ELSE LET k == FirstOcc(s, d)
         IN  <<SubSeq(s, 1, k - 1), d>>
                 \o ReSplitNonEmpty(SubSeq(s, k + Len(d), Len(s)), d)

\* re.split('()', s): the empty pattern matches before every character and
\* at the end, so the parts are '', '', c1, '', c2, ..., '', cn, '', ''
RECURSIVE ReSplitEmpty(_)
ReSplitEmpty(s) ==
    IF s = <<>> THEN <<<<>>, <<>>, <<>>>>
    ELSE <<<<>>, <<>>, <<Head(s)>>>> \o Tail(ReSplitEmpty(Tail(s)))

ReSplit(s, d) == IF d = <<>> THEN ReSplitEmpty(s) ELSE ReSplitNonEmpty(s, d)

-----------------------------------------------------------------------------
(* Segmenter: split_latex_into_lines                                       *)

\* a plausible slip: the delimiter is consumed as a separator, not kept
SplitStepDropsDelimiter(p, d, current_segment, lines, isLast) ==
    LET seg1   == IF p = d THEN current_segment ELSE current_segment \o p
        lines1 == IF p = d /\ Strip(seg1) # <<>>
                  THEN Append(lines, Strip(seg1)) ELSE lines
        seg2   == IF p = d THEN <<>> ELSE seg1
    IN  [current_segment |-> seg2,
         lines |-> IF isLast /\ Strip(seg2) # <<>>
                   THEN Append(lines1, Strip(seg2)) ELSE lines1]

\* a plausible slip: runs of adjacent delimiters collapse into one segment
SplitStepMergesDelimiters(p, d, current_segment, lines, isLast) ==
    LET seg1   == current_segment \o p
        dup    == p = d /\ current_segment = <<>> /\ lines # <<>>
                      /\ lines[Len(lines)] = d
        lines1 == IF p = d /\ Strip(seg1) # <<>> /\ ~dup
                  THEN Append(lines, Strip(seg1)) ELSE lines
        seg2   == IF p = d THEN <<>> ELSE seg1
    IN  [current_segment |-> seg2,
         lines |-> IF isLast /\ Strip(seg2) # <<>>
                   THEN Append(lines1, Strip(seg2)) ELSE lines1]

\* a plausible slip: the last segment is appended without being stripped
SplitStepKeepsBlanks(p, d, current_segment, lines, isLast) ==
    LET seg1   == current_segment \o p
        lines1 == IF p = d /\ Strip(seg1) # <<>>
                  THEN Append(lines, Strip(seg1)) ELSE lines
        seg2   == IF p = d THEN <<>> ELSE seg1
    IN  [current_segment |-> seg2,
         lines |-> IF isLast /\ Strip(seg2) # <<>>
                   THEN Append(lines1, seg2) ELSE lines1]

\* one pass of the loop body for a non-empty part p (lines 29-40): a
\* delimiter part closes the current segment, any other part extends it, and
\* after the last part what is left of the current segment is appended
SplitStep(p, d, current_segment, lines, isLast) ==
    LET seg1   == current_segment \o p
        lines1 == IF p = d /\ Strip(seg1) # <<>>
                  THEN Append(lines, Strip(seg1)) ELSE lines
        seg2   == IF p = d THEN <<>> ELSE seg1
    IN  [current_segment |-> seg2,
         lines |-> IF isLast /\ Strip(seg2) # <<>>
                   THEN Append(lines1, Strip(seg2)) ELSE lines1]

\* the loop over raw_parts (lines 24-40); an empty part is skipped by
\* `continue`, which also skips the last-part check of that pass
RECURSIVE SplitLoop(_, _, _, _, _)
SplitLoop(raw_parts, d, part_idx, current_segment, lines) ==
    IF part_idx > Len(raw_parts) THEN lines
    ELSE LET p == raw_parts[part_idx]
         IN  IF p = <<>>
             THEN SplitLoop(raw_parts, d, part_idx + 1, current_segment, lines)
             ELSE LET st == SplitStep(p, d, current_segment, lines,
                                      part_idx = Len(raw_parts))
                  IN  SplitLoop(raw_parts, d, part_idx + 1,
                                st.current_segment, st.lines)

split_latex_into_lines(s, d) ==
    IF Strip(s) = <<>> THEN <<>>
    ELSE LET lines == SplitLoop(ReSplit(s, d), d, 1, <<>>, <<>>)
         IN  IF lines = <<>> /\ Strip(s) = d THEN <<d>>
             ELSE IF lines = <<>> /\ Strip(s) # <<>> THEN <<Strip(s)>>
             ELSE lines

InitSplit ==
    /\ latex_input \in Inputs
    /\ delimiter \in Delims
    /\ lines_final = <<>>
    /\ split_pc = "call"
    /\ IdleImg
    /\ IdleStitch
    /\ IdleRun
    /\ IdleSend
    /\ IdleRender

\* one call of split_latex_into_lines(latex_input, delimiter)
SplitCall ==
    /\ split_pc = "call"
    /\ lines_final' = split_latex_into_lines(latex_input, delimiter)
    /\ split_pc' = "returned"
    /\ UNCHANGED <<latex_input, delimiter, imgVars, stitchVars, runVars, sendVars, renderVars>>

NextSplit == SplitCall

SpecSplit == InitSplit /\ [][NextSplit]_vars

-----------------------------------------------------------------------------
(* Claims about the Segmenter                                              *)

\* the list the contract describes: the input read as t1 d t2 d ... tk d tail
\* (each d the leftmost occurrence in what is left), every ti d trimmed, and
\* the trimmed tail only when it is not blank
RECURSIVE ContractSegments(_, _)
ContractSegments(s, d) ==
    IF ~Occurs(s, d)
    THEN IF Strip(s) = <<>> THEN <<>> ELSE <<Strip(s)>>
    ELSE LET k == FirstOcc(s, d)
         IN  <<Strip(SubSeq(s, 1, k - 1) \o d)>>
                 \o ContractSegments(SubSeq(s, k + Len(d), Len(s)), d)

\* s is d repeated n times, n >= 1
IsRepeated(s, d) ==
    /\ d # <<>>
    /\ Len(s) >= Len(d)
    /\ Len(s) % Len(d) = 0
    /\ \A i \in 1..Len(s) : s[i] = d[((i - 1) % Len(d)) + 1]

\* a delimiter that is not empty and has no leading or trailing whitespace
CleanDelimiter(d) == d # <<>> /\ Strip(d) = d

\* C1: for a delimiter without leading or trailing whitespace and an input
\* that is not blank, the call returns [trim(t1 d), ..., trim(tk d)] followed
\* by trim(tail) only when the tail is not blank: every delimiter ends the
\* segment before it and a delimiter at the very end adds no segment.
C1_DelimiterEndsSegment ==
    (/\ split_pc = "returned"
     /\ CleanDelimiter(delimiter)
     /\ Strip(latex_input) # <<>>)
    => lines_final = ContractSegments(latex_input, delimiter)

\* "a,a,a" on "," has been split into "a,", "a," and "a"
C1_Witness ==
    /\ split_pc = "returned"
    /\ delimiter = <<",">>
    /\ latex_input = <<"a", ",", "a", ",", "a">>
    /\ lines_final = << <<"a", ",">>, <<"a", ",">>, <<"a">> >>

\* C2 as stated: the delimiter repeated N >= 1 times gives exactly one
\* segment, equal to the delimiter (read here on the delimiters that are
\* not empty and carry no leading or trailing whitespace).
C2_AsStated_OneSegment ==
    (/\ split_pc = "returned"
     /\ CleanDelimiter(delimiter)
     /\ IsRepeated(latex_input, delimiter))
    => lines_final = <<delimiter>>

\* C2 as amended: for a non-empty delimiter without leading or trailing
\* whitespace, the delimiter repeated N >= 1 times gives exactly N segments,
\* each equal to the delimiter.
C2_RepeatedDelimiterGivesN ==
    (/\ split_pc = "returned"
     /\ CleanDelimiter(delimiter)
     /\ IsRepeated(latex_input, delimiter))
    => /\ Len(lines_final) = Len(latex_input) \div Len(delimiter)
       /\ \A i \in 1..Len(lines_final) : lines_final[i] = delimiter

\* ",,," on "," has been split into three "," segments
C2_Witness ==
    /\ split_pc = "returned"
    /\ delimiter = <<",">>
    /\ latex_input = <<",", ",", ",">>
    /\ Len(lines_final) = 3

\* C3 as stated: every non-empty input without an occurrence of the
\* delimiter gives exactly one segment, the trimmed input.
C3_AsStated_NonEmptyInput ==
    (/\ split_pc = "returned"
     /\ latex_input # <<>>
     /\ ~Occurs(latex_input, delimiter))
    => lines_final = <<Strip(latex_input)>>

\* C3 as amended: every input that is not blank and has no occurrence of the
\* delimiter gives exactly one segment, the trimmed input.
C3_NoDelimiterOneSegment ==
    (/\ split_pc = "returned"
     /\ Strip(latex_input) # <<>>
     /\ ~Occurs(latex_input, delimiter))
    => lines_final = <<Strip(latex_input)>>

\* " a " on "," has been split into the single segment "a"
C3_Witness ==
    /\ split_pc = "returned"
    /\ delimiter = <<",">>
    /\ latex_input = <<" ", "a", " ">>
    /\ lines_final = << <<"a">> >>

-----------------------------------------------------------------------------
(* Images                                                                  *)
(* An image is [width, height, pixels], pixels a function of <<x, y>>,     *)
(* 0 <= x < width, 0 <= y < height, to an RGBA value.  The image files of  *)
(* the pipeline are the PNG files matplotlib's savefig writes, mode RGBA.  *)

White == <<255, 255, 255, 255>>
Black == <<0, 0, 0, 255>>
Clear == <<0, 0, 0, 0>>

PixelValues == {White, Black, Clear}

\* background_color_str: the transparency sentinel, a colour name, and a
\* string ImageColor does not know
Backgrounds == {"none", "white", "bogus"}

\* ImageColor.getcolor(name, 'RGBA') raises ValueError for an unknown name
KnownColor(name) == name \in {"white", "black"}

GetColor(name) == IF name = "black" THEN Black ELSE White

Coords(w, h) == (0..(w - 1)) \X (0..(h - 1))

NewImage(w, h, fill) ==
    [width |-> w, height |-> h, pixels |-> [c \in Coords(w, h) |-> fill]]

Shapes == {wh \in (1..MaxArea) \X (1..MaxArea) : wh[1] * wh[2] <= MaxArea}

Images ==
    UNION {{[width |-> wh[1], height |-> wh[2], pixels |-> f] :
               f \in [Coords(wh[1], wh[2]) -> PixelValues]} : wh \in Shapes}

-----------------------------------------------------------------------------
(* Ink-Bounds Scanner: get_precise_ink_bbox                                *)

\* the pixel test of the two scan loops (lines 68 and 83); an unknown
\* colour name scans against opaque white (lines 76-79)
IsInk(pixel, background) ==
    IF background = "none" THEN pixel[4] > 0
    ELSE pixel # (IF KnownColor(background) THEN GetColor(background) ELSE White)

\* a plausible slip: the four `if` of the loop body chained with `elif`
ScanStepElif(b, x_ax, y_ax) ==
    IF x_ax < b.min_x THEN [b EXCEPT !.min_x = x_ax, !.found_ink = TRUE]
    ELSE IF y_ax < b.min_y THEN [b EXCEPT !.min_y = y_ax, !.found_ink = TRUE]
    ELSE IF x_ax > b.max_x THEN [b EXCEPT !.max_x = x_ax, !.found_ink = TRUE]
    ELSE IF y_ax > b.max_y THEN [b EXCEPT !.max_y = y_ax, !.found_ink = TRUE]
    ELSE [b EXCEPT !.found_ink = TRUE]

\* the loop body for an ink pixel (lines 69-73, 84-88)
ScanStep(b, x_ax, y_ax) ==
    [min_x |-> IF x_ax < b.min_x THEN x_ax ELSE b.min_x,
     min_y |-> IF y_ax < b.min_y THEN y_ax ELSE b.min_y,
     max_x |-> IF x_ax > b.max_x THEN x_ax ELSE b.max_x,
     max_y |-> IF y_ax > b.max_y THEN y_ax ELSE b.max_y,
     found_ink |-> TRUE]

\* for y_ax in range(height): for x_ax in range(width): pixel n of the
\* row-major order is (n % width, n \div width)
RECURSIVE ScanLoop(_, _, _, _)
ScanLoop(image, background, n, b) ==
    IF n >= image.width * image.height THEN b
    ELSE LET x_ax == n % image.width
             y_ax == n \div image.width
         IN  ScanLoop(image, background, n + 1,
                      IF IsInk(image.pixels[<<x_ax, y_ax>>], background)
                      THEN ScanStep(b, x_ax, y_ax) ELSE b)

\* a plausible slip: the inclusive maxima returned as they are
BBoxResultInclusive(b) ==
    IF ~b.found_ink THEN None ELSE <<b.min_x, b.min_y, b.max_x, b.max_y>>

\* lines 90-94
BBoxResult(b) ==
    IF ~b.found_ink THEN None
    ELSE <<b.min_x, b.min_y, b.max_x + 1, b.max_y + 1>>

get_precise_ink_bbox(image, background) ==
    BBoxResult(ScanLoop(image, background, 0,
                        [min_x |-> image.width, min_y |-> image.height,
                         max_x |-> -1, max_y |-> -1, found_ink |-> FALSE]))

-----------------------------------------------------------------------------
(* auto_crop_image                                                         *)

\* Image.crop(box) for a box inside the image
Crop(image, box) ==
    [width  |-> box[3] - box[1],
     height |-> box[4] - box[2],
     pixels |-> [c \in Coords(box[3] - box[1], box[4] - box[2]) |->
                    image.pixels[<<c[1] + box[1], c[2] + box[2]>>]]]

Max(a, b) == IF a >= b THEN a ELSE b

\* lines 123-126: a canvas of the padded size, the crop pasted at (pad, pad)
Pad(image, pad, fill) ==
    LET new_width  == Max(1, image.width + 2 * pad)
        new_height == Max(1, image.height + 2 * pad)
    IN  [width  |-> new_width,
         height |-> new_height,
         pixels |-> [c \in Coords(new_width, new_height) |->
                        IF /\ c[1] >= pad /\ c[1] < pad + image.width
                           /\ c[2] >= pad /\ c[2] < pad + image.height
                        THEN image.pixels[<<c[1] - pad, c[2] - pad>>]
                        ELSE fill]]

\* auto_crop_image(image_path, background, pad) on a file holding `image`:
\* [ok: the value returned, file: the file afterwards].  ImageColor raises
\* ValueError for an unknown colour name (getcolor, then getrgb again, lines
\* 115-117 and 146-149; line 135 unguarded): the outer handler returns False
\* and the file keeps what it held.
auto_crop_image(image, background, pad) ==
    LET box    == get_precise_ink_bbox(image, background)
        failed == [ok |-> FALSE, file |-> image]
        fill   == IF background = "none" THEN Clear ELSE GetColor(background)
    IN  IF box # None
        THEN LET img_cropped == Crop(image, box)
             IN  IF pad > 0 /\ background # "none" /\ ~KnownColor(background)
                 THEN failed
                 ELSE LET img_to_save == IF pad > 0
                                         THEN Pad(img_cropped, pad, fill)
                                         ELSE img_cropped
                      IN  IF img_to_save.width = 0 \/ img_to_save.height = 0
                          THEN IF background # "none" /\ ~KnownColor(background)
                               THEN failed
                               ELSE [ok |-> TRUE, file |-> NewImage(1, 1, fill)]
                          ELSE [ok |-> TRUE, file |-> img_to_save]
        ELSE IF background # "none" /\ ~KnownColor(background)
             THEN failed
             ELSE [ok |-> TRUE, file |-> NewImage(1, 1, fill)]

Paddings == {0, 1}

InitImg ==
    /\ img \in Images
    /\ background_color_str \in Backgrounds
    /\ padding \in Paddings
    /\ bbox = None
    /\ crop_sizes = <<>>
    /\ crop_ok = TRUE
    /\ img_pc = "new"
    /\ IdleSplit
    /\ IdleStitch
    /\ IdleRun
    /\ IdleSend
    /\ IdleRender

\* one call of get_precise_ink_bbox(img, background_color_str)
ScanCall ==
    /\ img_pc = "new"
    /\ bbox' = get_precise_ink_bbox(img, background_color_str)
    /\ img_pc' = "scanned"
    /\ UNCHANGED <<img, background_color_str, padding, crop_sizes, crop_ok, splitVars, stitchVars, runVars, sendVars, renderVars>>

\* one call of auto_crop_image on the file, at most two in a row
CropCall ==
    /\ img_pc \in {"scanned", "cropped"}
    /\ Len(crop_sizes) < 2
    /\ LET r == auto_crop_image(img, background_color_str, padding)
       IN  /\ img' = r.file
           /\ crop_ok' = r.ok
           /\ crop_sizes' = Append(crop_sizes, <<r.file.width, r.file.height>>)
    /\ img_pc' = "cropped"
    /\ UNCHANGED <<background_color_str, padding, bbox, splitVars, stitchVars, runVars, sendVars, renderVars>>

NextImg == ScanCall \/ CropCall

SpecImg == InitImg /\ [][NextImg]_vars

-----------------------------------------------------------------------------
(* Claims about the scanner and auto_crop_image                            *)

\* the ink pixels as the claim defines them: alpha > 0 under 'none', an RGBA
\* value other than the background's otherwise
ClaimedInk(image, background) ==
    {c \in DOMAIN image.pixels :
        IF background = "none" THEN image.pixels[c][4] # 0
        ELSE image.pixels[c] # GetColor(background)}

\* C4: get_precise_ink_bbox returns None exactly when the image has no ink
\* pixel, and otherwise the smallest rectangle (left, upper, right and lower
\* exclusive) holding every ink pixel: each ink pixel lies inside it and each
\* of its four sides touches an ink pixel; one ink pixel at (x, y) gives
\* (x, y, x+1, y+1).
C4_TightInkBox ==
    (img_pc = "scanned" /\ (background_color_str = "none" \/ KnownColor(background_color_str)))
    => LET ink == ClaimedInk(img, background_color_str)
       IN  /\ (bbox = None) <=> (ink = {})
           /\ bbox # None =>
                /\ \A c \in ink : /\ bbox[1] <= c[1] /\ c[1] < bbox[3]
                                  /\ bbox[2] <= c[2] /\ c[2] < bbox[4]
                /\ \E c \in ink : c[1] = bbox[1]
                /\ \E c \in ink : c[2] = bbox[2]
                /\ \E c \in ink : c[1] = bbox[3] - 1
                /\ \E c \in ink : c[2] = bbox[4] - 1
           /\ \A c \in ink : ink = {c} => bbox = <<c[1], c[2], c[1] + 1, c[2] + 1>>

\* a 3 x 2 image on white with its one ink pixel at (1, 1) was scanned
C4_Witness ==
    /\ img_pc = "scanned"
    /\ background_color_str = "white"
    /\ img.width = 3 /\ img.height = 2
    /\ ClaimedInk(img, "white") = {<<1, 1>>}
    /\ bbox = <<1, 1, 2, 2>>

\* C5: with padding 0, auto_crop_image applied to a file that is already the
\* result of auto_crop_image with padding 0 and the same background leaves
\* the width and the height as they are.
C5_CropIdempotentOnSize ==
    (padding = 0 /\ Len(crop_sizes) = 2) => crop_sizes[2] = crop_sizes[1]

\* a 3 x 2 image with blank margins was cropped to 1 x 1 and cropped again
C5_Witness ==
    /\ padding = 0
    /\ Len(crop_sizes) = 2
    /\ crop_ok
    /\ bbox = <<1, 1, 2, 2>>
    /\ crop_sizes[1] = <<1, 1>>
    /\ img.pixels[<<0, 0>>] = Black

-----------------------------------------------------------------------------
(* Compositor: stitch_images_vertically                                    *)
(* A listed path holds no file (Image.open raises FileNotFoundError), a    *)
(* file that is no image (any other exception), or an image, of which the  *)
(* Compositor's geometry reads the size.                                   *)

ImageFile(w, h) == [kind |-> "image", width |-> w, height |-> h]
Missing == [kind |-> "missing", width |-> 0, height |-> 0]
Unopenable == [kind |-> "unopenable", width |-> 0, height |-> 0]

\* the placeholder figures are figsize (3, 1) saved at dpi 100
Placeholder == [kind |-> "placeholder", width |-> 300, height |-> 100]

Widths == {1, 4}
Heights == {1, 10, 20}
Spacings == {-5, 0, 5}

PathStates == {Missing, Unopenable} \cup {ImageFile(w, h) : w \in Widths, h \in Heights}

RECURSIVE PathListsUpTo(_)
PathListsUpTo(n) ==
    IF n = 0 THEN {<<>>}
    ELSE LET shorter == PathListsUpTo(n - 1)
         IN  shorter \cup {Append(l, f) : l \in {t \in shorter : Len(t) = n - 1},
                                           f \in PathStates}

\* the load loop (lines 245-261): a path that cannot be opened is skipped, a
\* zero-size image is replaced by one of at least 1 x 1
RECURSIVE LoadImages(_)
LoadImages(paths) ==
    IF paths = <<>> THEN <<>>
    ELSE LET f == Head(paths)
         IN  IF f.kind = "image"
             THEN <<[width |-> Max(1, f.width), height |-> Max(1, f.height)]>>
                      \o LoadImages(Tail(paths))
             ELSE LoadImages(Tail(paths))

RECURSIVE SumHeights(_)
SumHeights(images) ==
    IF images = <<>> THEN 0 ELSE Head(images).height + SumHeights(Tail(images))

RECURSIVE MaxWidthOf(_, _)
MaxWidthOf(images, default) ==
    IF images = <<>> THEN default
    ELSE LET rest == MaxWidthOf(Tail(images), Head(images).width)
         IN  Max(Head(images).width, rest)

\* a plausible slip: the spacing counted after every image, the last too
TotalHeightSpacingAfterEach(images, spacing) ==
    Max(1, SumHeights(images) + Len(images) * spacing)

\* lines 277-283
TotalHeight(images, spacing) ==
    Max(1, IF Len(images) > 1
           THEN SumHeights(images) + (Len(images) - 1) * spacing
           ELSE SumHeights(images))

\* lines 275 and 282
CanvasWidth(images) == Max(1, MaxWidthOf(images, 1))

\* a plausible slip: the spacing is never added to current_y
RECURSIVE PasteLoopNoSpacing(_, _, _, _)
PasteLoopNoSpacing(images, spacing, i, current_y) ==
    IF i > Len(images) THEN <<>>
    ELSE <<[x |-> 0, y |-> current_y,
            width |-> images[i].width, height |-> images[i].height]>>
         \o PasteLoopNoSpacing(images, spacing, i + 1,
                               current_y + images[i].height)

\* the paste loop (lines 300-317): image i at (0, current_y), then current_y
\* grows by its height and, except after the last image, by the spacing
RECURSIVE PasteLoop(_, _, _, _)
PasteLoop(images, spacing, i, current_y) ==
    IF i > Len(images) THEN <<>>
    ELSE <<[x |-> 0, y |-> current_y,
            width |-> images[i].width, height |-> images[i].height]>>
         \o PasteLoop(images, spacing, i + 1,
                      current_y + images[i].height
                          + (IF i < Len(images) THEN spacing ELSE 0))

\* a plausible slip: the placeholder branch left out when nothing loads
NothingLoadedSilent(writable) == NoStitch

\* lines 263-273: nothing loaded; the placeholder figure is saved inside a
\* try whose handler only prints
NothingLoaded(writable) ==
    [NoStitch EXCEPT !.output = IF writable THEN Placeholder ELSE NoFile]

\* stitch_images_vertically(paths, output_filename, fill, spacing) with
\* output_filename absent before the call
stitch_images_vertically(paths, fill, spacing, writable) ==
    IF paths = <<>> THEN NoStitch                          \* lines 241-243
    ELSE LET images == LoadImages(paths)
         IN  IF images = <<>> THEN NothingLoaded(writable)
             ELSE IF fill # "none" /\ ~KnownColor(fill)
             THEN [NoStitch EXCEPT !.raised = TRUE]        \* lines 292-294
             ELSE LET w == CanvasWidth(images)
                      h == TotalHeight(images, spacing)
                  IN  [canvas |-> <<w, h>>,
                       pastes |-> PasteLoop(images, spacing, 1, 0),
                       output |-> IF writable
                                  THEN [kind |-> "stitched", width |-> w, height |-> h]
                                  ELSE NoFile,              \* lines 319-323
                       raised |-> FALSE]

InitStitch ==
    /\ image_paths \in PathListsUpTo(MaxPaths)
    /\ bgcolor_fill \in Backgrounds
    /\ line_spacing \in Spacings
    /\ out_writable \in BOOLEAN
    /\ stitched = NoStitch
    /\ stitch_pc = "call"
    /\ IdleSplit
    /\ IdleImg
    /\ IdleRun
    /\ IdleSend
    /\ IdleRender

\* one call of stitch_images_vertically
StitchCall ==
    /\ stitch_pc = "call"
    /\ stitched' = stitch_images_vertically(image_paths, bgcolor_fill,
                                            line_spacing, out_writable)
    /\ stitch_pc' = "returned"
    /\ UNCHANGED <<image_paths, bgcolor_fill, line_spacing, out_writable,
                   splitVars, imgVars, runVars, sendVars, renderVars>>

NextStitch == StitchCall

SpecStitch == InitStitch /\ [][NextStitch]_vars

-----------------------------------------------------------------------------
(* Claims about the Compositor                                             *)

\* the images among the listed paths, in order
Loadable(paths) == SelectSeq(paths, LAMBDA f : f.kind = "image")

\* the sum of f(i) over i in 1..n
RECURSIVE SumTo(_, _)
SumTo(f, n) == IF n = 0 THEN 0 ELSE f[n] + SumTo(f, n - 1)

\* C6: over n >= 1 loaded images (and a fill that is 'none' or a colour
\* name ImageColor knows) the canvas is created, max(1, largest width) wide
\* and max(1, sum of the heights + (n - 1) * line_spacing) high: the spacing
\* is counted between adjacent loaded images only (10 and 20 with spacing 5
\* give 35).
C6_CanvasSize ==
    (/\ stitch_pc = "returned"
     /\ Loadable(image_paths) # <<>>
     /\ (bgcolor_fill = "none" \/ KnownColor(bgcolor_fill)))
    => LET imgs == Loadable(image_paths)
           n    == Len(imgs)
           wmax == CHOOSE w \in {imgs[i].width : i \in 1..n} :
                       \A i \in 1..n : imgs[i].width <= w
           hsum == SumTo([i \in 1..n |-> imgs[i].height], n)
       IN  /\ ~stitched.raised
           /\ stitched.canvas = <<Max(1, wmax),
                                  Max(1, hsum + (n - 1) * line_spacing)>>

\* heights 10 and 20 (widths 1 and 4) with spacing 5 gave a 4 x 35 canvas
C6_Witness ==
    /\ stitch_pc = "returned"
    /\ image_paths = <<ImageFile(1, 10), ImageFile(4, 20)>>
    /\ line_spacing = 5
    /\ stitched.canvas = <<4, 35>>

\* C7 as stated: with zero loadable images (every listed path missing or
\* unopenable, or no path listed) a non-empty placeholder is written to the
\* output path and nothing is raised.
C7_AsStated_PlaceholderAlways ==
    (stitch_pc = "returned" /\ Loadable(image_paths) = <<>>)
    => /\ ~stitched.raised
       /\ stitched.output.kind = "placeholder"
       /\ stitched.output.width > 0 /\ stitched.output.height > 0

\* C7 as amended: with at least one path listed and none of them loadable, a
\* non-empty placeholder is written to the output path unless saving it
\* fails; with no path listed nothing is written; nothing is raised in
\* either case.
C7_PlaceholderWhenNothingLoads ==
    (stitch_pc = "returned" /\ Loadable(image_paths) = <<>>)
    => /\ ~stitched.raised
       /\ stitched.canvas = None
       /\ (image_paths # <<>> /\ out_writable)
            => /\ stitched.output.kind = "placeholder"
               /\ stitched.output.width > 0 /\ stitched.output.height > 0
       /\ (image_paths = <<>> \/ ~out_writable) => stitched.output = NoFile

\* a missing and an unopenable path were listed and the placeholder written
C7_Witness ==
    /\ stitch_pc = "returned"
    /\ image_paths = <<Missing, Unopenable>>
    /\ stitched.output = Placeholder

-----------------------------------------------------------------------------
(* Fragment Renderer, as the orchestrator sees it                          *)

\* what can happen inside one render, apart from the configuration: the
\* figure renders, matplotlib raises RuntimeError, or anything else raises
RenderEvents == {"ok", "runtime_error", "other_error"}

FragmentImage == ImageFile(4, 10)

\* the error-indicator figure is figsize (5, 1) saved at dpi 100
ErrorImage == ImageFile(500, 100)

\* render_single_latex_line(line, output_filename, ...), output_filename in a
\* directory that exists or not: whether it raises, what it returns and what
\* it leaves at output_filename.
\*   line 191, outside the try: plt.subplots(facecolor=bgcolor) raises
\*     ValueError for an unknown colour name, and the call raises;
\*   lines 194-220: savefig, auto_crop_image, the delimiter resize: True,
\*     unless savefig finds no directory (caught at line 231: False);
\*   lines 221-230: on RuntimeError the error-indicator figure is saved with
\*     no try around it: False, or the call raises when that save fails;
\*   lines 231-234: any other exception: False, nothing written.
render_single_latex_line(background, dirExists, event) ==
    IF background # "none" /\ ~KnownColor(background)
    THEN [raised |-> TRUE, returns |-> FALSE, writes |-> "nothing"]
    ELSE IF event = "ok"
    THEN IF dirExists
         THEN [raised |-> FALSE, returns |-> TRUE, writes |-> "fragment"]
         ELSE [raised |-> FALSE, returns |-> FALSE, writes |-> "nothing"]
    ELSE IF event = "runtime_error"
    THEN IF dirExists
         THEN [raised |-> FALSE, returns |-> FALSE, writes |-> "error_image"]
         ELSE [raised |-> TRUE, returns |-> FALSE, writes |-> "nothing"]
    ELSE [raised |-> FALSE, returns |-> FALSE, writes |-> "nothing"]

-----------------------------------------------------------------------------
(* Fragment Renderer: the file render_single_latex_line leaves             *)

\* is_delimiter_line = (stripped_line == delimiter_char)   (lines 175, 179)
IsDelimiterLine(line, d) == Strip(line) = d

\* a plausible slip: the cap compared one pixel too high
NeedsResizeLoose(height, cap) == height > cap + 1

\* `if img_check.height > max_delimiter_line_height` (line 210)
NeedsResize(height, cap) == height > cap

\* a plausible slip: the cap taken as the new height as it is
ResizedSizeUnclamped(width, cap) == <<Max(1, width), cap>>

\* lines 212-216: the size handed to img_check.resize
ResizedSize(width, cap) == <<Max(1, width), Max(1, cap)>>

\* lines 199-220 for a figure that rasterizes to `image`: savefig writes it,
\* auto_crop_image crops the file in place (a False it returns is only
\* printed), and the file of a delimiter line that is higher than the cap is
\* resized and saved again, inside a try whose handler only prints.
\*   cropped: the size of the file after auto_crop_image
\*   size:    the size of the file when the call returns
\*   resize_failed: the resize was tried and raised
RenderedFile(image, line, d, background, pad, cap, resize_ok) ==
    LET crop   == auto_crop_image(image, background, pad)
        width  == crop.file.width
        height == crop.file.height
        resize == IsDelimiterLine(line, d) /\ NeedsResize(height, cap)
    IN  [cropped |-> <<width, height>>,
         size    |-> IF resize /\ resize_ok THEN ResizedSize(width, cap)
                     ELSE <<width, height>>,
         resize_failed |-> resize /\ ~resize_ok]

\* the rasters: every image of these shapes
RasterShapes == {<<1, 1>>, <<2, 2>>, <<1, 4>>}

Rasters == {i \in Images : <<i.width, i.height>> \in RasterShapes}

\* the segments rendered, each with the delimiter of its run: the bare
\* delimiter, formulas with and without it, and the "," that the Segmenter
\* returns (stripped) under the delimiter ", "
RenderCases ==
    {[line |-> <<",">>,      d |-> <<",">>],
     [line |-> <<"a", ",">>, d |-> <<",">>],
     [line |-> <<"a">>,      d |-> <<",">>],
     [line |-> <<",">>,      d |-> <<",", " ">>]}

\* values of max_delimiter_line_height: negative, zero, one, the default 2,
\* and 3
Caps == {-1, 0, 1, 2, 3}

\* values of autocrop_padding
RenderPaddings == {-1, 0, 1}

InitRender ==
    /\ \E c \in RenderCases : latex_line_string = c.line /\ delimiter_char = c.d
    /\ raster \in Rasters
    /\ line_bgcolor \in Backgrounds
    /\ autocrop_padding \in RenderPaddings
    /\ max_delimiter_line_height \in Caps
    /\ fragment = NoFile
    /\ cropped_size = None
    /\ resize_failed = FALSE
    /\ render_ret = FALSE
    /\ render_pc = "call"
    /\ IdleSplit
    /\ IdleImg
    /\ IdleStitch
    /\ IdleRun
    /\ IdleSend

\* one call of render_single_latex_line into a directory that exists: the
\* figure rasterizes or raises (RenderEvents), and the delimiter resize
\* succeeds or raises
RenderCall ==
    /\ render_pc = "call"
    /\ \E event \in RenderEvents : \E resize_ok \in BOOLEAN :
         LET res  == render_single_latex_line(line_bgcolor, TRUE, event)
             file == RenderedFile(raster, latex_line_string, delimiter_char,
                                  line_bgcolor, autocrop_padding,
                                  max_delimiter_line_height, resize_ok)
         IN  /\ render_pc' = IF res.raised THEN "raised" ELSE "returned"
             /\ render_ret' = res.returns
             /\ IF res.writes = "fragment"
                THEN /\ fragment' = ImageFile(file.size[1], file.size[2])
                     /\ cropped_size' = file.cropped
                     /\ resize_failed' = file.resize_failed
                ELSE /\ fragment' = IF res.writes = "error_image"
                                    THEN ErrorImage ELSE NoFile
                     /\ UNCHANGED <<cropped_size, resize_failed>>
    /\ UNCHANGED <<latex_line_string, delimiter_char, raster, line_bgcolor,
                   autocrop_padding, max_delimiter_line_height>>
    /\ UNCHANGED <<splitVars, imgVars, stitchVars, runVars, sendVars>>

NextRender == RenderCall

SpecRender == InitRender /\ [][NextRender]_vars

-----------------------------------------------------------------------------
(* Orchestrator: process_and_render_latex                                  *)

\* main.py's DEFAULT_STITCH_LINE_SPACING
DefaultStitchLineSpacing == 5

\* the delimiter of the runs
RunDelimiter == <<",">>

\* d is `top` or lies below it (shutil.rmtree(top) removes it)
Under(d, top) ==
    \/ d = top
    \/ top = Cwd
    \/ top.id = 0 /\ d.root = top.root

\* os.path.join(temp_dir, f"line_{i}.png")
FragPath(d, n) == [dir |-> d, n |-> n]

PathOf(f) == FragPath(f.dir, f.n)

Exists(fs, path) == \E f \in fs : PathOf(f) = path

\* a save to `path`: what was there is replaced
WriteFile(fs, path, kind, r) ==
    {f \in fs : PathOf(f) # path}
        \cup {[dir |-> path.dir, n |-> path.n, kind |-> kind, by |-> r]}

\* what Image.open finds at `path`
OpenFile(fs, path) ==
    IF ~Exists(fs, path) THEN Missing
    ELSE LET f == CHOOSE g \in fs : PathOf(g) = path
         IN  IF f.kind = "error_image" THEN ErrorImage ELSE FragmentImage

\* a plausible slip: the empty-input branch does not return
NoLinesNever(lines) == FALSE

\* `if not latex_lines` (line 343)
NoLines(lines) == lines = <<>>

\* lines 341-353: split; with no segment, the placeholder figure is created
\* and saved inside a try whose handler only prints, and the run returns
Begin(r) ==
    /\ pc[r] = "start"
    /\ LET lines == split_latex_into_lines(full_latex_input[r], RunDelimiter)
       IN  /\ latex_lines' = [latex_lines EXCEPT ![r] = lines]
           /\ IF NoLines(lines)
              THEN /\ pc' = [pc EXCEPT ![r] = "done"]
                   /\ output_file' =
                        [output_file EXCEPT ![r] =
                            IF (bgcolor = "none" \/ KnownColor(bgcolor)) /\ output_writable
                            THEN Placeholder ELSE @]
              ELSE /\ pc' = [pc EXCEPT ![r] = "mkbase"]
                   /\ UNCHANGED output_file
    /\ UNCHANGED <<runs, full_latex_input, temp_dir_base, temp_dir, loop_i,
                   success, temp_image_paths, all_renders_successful, bgcolor,
                   cleanup_temp_files, output_writable, dirs, files, made_dirs,
                   render_calls, stitch_calls, io_log, clobbered>>
    /\ UNCHANGED <<splitVars, imgVars, stitchVars, sendVars, renderVars>>

\* lines 358-365: the base directory is created when it is not there; when
\* that fails the run falls back to the current directory
MakeBase(r) ==
    /\ pc[r] = "mkbase"
    /\ IF Base \in dirs
       THEN UNCHANGED <<dirs, made_dirs, temp_dir_base>>
       ELSE \E ok \in BOOLEAN :
              IF ok
              THEN /\ dirs' = dirs \cup {Base}
                   /\ made_dirs' = [made_dirs EXCEPT ![r] = @ \cup {Base}]
                   /\ UNCHANGED temp_dir_base
              ELSE /\ temp_dir_base' = [temp_dir_base EXCEPT ![r] = Cwd]
                   /\ UNCHANGED <<dirs, made_dirs>>
    /\ pc' = [pc EXCEPT ![r] = "mkdir"]
    /\ UNCHANGED <<runs, full_latex_input, latex_lines, temp_dir, loop_i,
                   success, temp_image_paths, all_renders_successful,
                   output_file, bgcolor, cleanup_temp_files, output_writable,
                   files, render_calls, stitch_calls, io_log, clobbered>>
    /\ UNCHANGED <<splitVars, imgVars, stitchVars, sendVars, renderVars>>

\* lines 367-373: the run's own subdirectory (makedirs creates the parents
\* too); when that fails the run uses the base directory itself.  Then the
\* loop of line 378 starts (over no segment it ends at once, line 396)
MakeDir(r) ==
    /\ pc[r] = "mkdir"
    /\ LET own == Dir(temp_dir_base[r].root, r)
       IN  IF own \in dirs
           THEN /\ temp_dir' = [temp_dir EXCEPT ![r] = own]
                /\ UNCHANGED <<dirs, made_dirs>>
           ELSE \E ok \in BOOLEAN :
                  IF ok
                  THEN /\ temp_dir' = [temp_dir EXCEPT ![r] = own]
                       /\ dirs' = dirs \cup {own, Dir(own.root, 0)}
                       /\ made_dirs' = [made_dirs EXCEPT ![r] =
                                           @ \cup ({own, Dir(own.root, 0)} \ dirs)]
                  ELSE /\ temp_dir' = [temp_dir EXCEPT ![r] = temp_dir_base[r]]
                       /\ UNCHANGED <<dirs, made_dirs>>
    /\ loop_i' = [loop_i EXCEPT ![r] = 0]
    /\ pc' = [pc EXCEPT ![r] = IF latex_lines[r] = <<>> THEN "cleanup" ELSE "render"]
    /\ UNCHANGED <<runs, full_latex_input, latex_lines, temp_dir_base, success,
                   temp_image_paths, all_renders_successful, output_file,
                   bgcolor, cleanup_temp_files, output_writable, files,
                   render_calls, stitch_calls, io_log, clobbered>>
    /\ UNCHANGED <<splitVars, imgVars, stitchVars, sendVars, renderVars>>

\* line 382: one call of render_single_latex_line for segment i; an
\* exception it raises leaves process_and_render_latex at once
RenderLine(r) ==
    /\ pc[r] = "render"
    /\ loop_i[r] < Len(latex_lines[r])
    /\ \E event \in RenderEvents :
         LET path == FragPath(temp_dir[r], loop_i[r])
             res  == render_single_latex_line(bgcolor, temp_dir[r] \in dirs, event)
         IN  /\ render_calls' = [render_calls EXCEPT ![r] = @ + 1]
             /\ IF res.raised
                THEN /\ pc' = [pc EXCEPT ![r] = "raised"]
                     /\ UNCHANGED <<success, files, io_log>>
                ELSE /\ pc' = [pc EXCEPT ![r] = "collect"]
                     /\ success' = [success EXCEPT ![r] = res.returns]
                     /\ IF res.writes = "nothing"
                        THEN UNCHANGED <<files, io_log>>
                        ELSE /\ files' = WriteFile(files, path, res.writes, r)
                             /\ io_log' = io_log \cup
                                  {[path |-> path, run |-> r, op |-> "write"]}
    /\ UNCHANGED <<runs, full_latex_input, latex_lines, temp_dir_base, temp_dir,
                   loop_i, temp_image_paths, all_renders_successful,
                   output_file, bgcolor, cleanup_temp_files, output_writable,
                   dirs, made_dirs, stitch_calls, clobbered>>
    /\ UNCHANGED <<splitVars, imgVars, stitchVars, sendVars, renderVars>>

\* a plausible slip: only the path of a render that returned True is kept
CollectedOnSuccess(paths, path, ok, there) ==
    IF ok /\ there THEN Append(paths, path) ELSE paths

\* lines 383-393: temp_image_paths after one iteration
CollectedPaths(paths, path, ok, there) ==
    IF ok
    THEN IF there THEN Append(paths, path) ELSE paths   \* lines 384-388
    ELSE IF there THEN Append(paths, path) ELSE paths   \* lines 390-393

\* lines 383-396: the path is collected when its file exists, whatever the
\* render returned; after the last segment the run stitches, or with no path
\* collected goes to its cleanup and returns
CollectPath(r) ==
    /\ pc[r] = "collect"
    /\ LET path  == FragPath(temp_dir[r], loop_i[r])
           there == Exists(files, path)
           paths == CollectedPaths(temp_image_paths[r], path, success[r], there)
       IN  /\ temp_image_paths' = [temp_image_paths EXCEPT ![r] = paths]
           /\ all_renders_successful' =
                [all_renders_successful EXCEPT ![r] = @ /\ success[r] /\ there]
           /\ loop_i' = [loop_i EXCEPT ![r] = @ + 1]
           /\ pc' = [pc EXCEPT ![r] =
                        IF loop_i[r] + 1 < Len(latex_lines[r]) THEN "render"
                        ELSE IF paths = <<>> THEN "cleanup" ELSE "stitch"]
    /\ UNCHANGED <<runs, full_latex_input, latex_lines, temp_dir_base, temp_dir,
                   success, output_file, bgcolor, cleanup_temp_files,
                   output_writable, dirs, files, made_dirs, render_calls,
                   stitch_calls, io_log, clobbered>>
    /\ UNCHANGED <<splitVars, imgVars, stitchVars, sendVars, renderVars>>

\* line 405: the Compositor over the collected paths
Stitch(r) ==
    /\ pc[r] = "stitch"
    /\ LET found == [k \in 1..Len(temp_image_paths[r]) |->
                        OpenFile(files, temp_image_paths[r][k])]
           res   == stitch_images_vertically(found, bgcolor,
                                             DefaultStitchLineSpacing, output_writable)
       IN  /\ stitch_calls' = [stitch_calls EXCEPT ![r] = Append(@, temp_image_paths[r])]
           /\ io_log' = io_log \cup
                {[path |-> temp_image_paths[r][k], run |-> r, op |-> "open"] :
                    k \in {j \in 1..Len(found) : found[j].kind = "image"}}
           /\ output_file' = [output_file EXCEPT ![r] =
                                 IF res.output = NoFile THEN @ ELSE res.output]
           /\ pc' = [pc EXCEPT ![r] = IF res.raised THEN "raised" ELSE "cleanup"]
    /\ UNCHANGED <<runs, full_latex_input, latex_lines, temp_dir_base, temp_dir,
                   loop_i, success, temp_image_paths, all_renders_successful,
                   bgcolor, cleanup_temp_files, output_writable, dirs, files,
                   made_dirs, render_calls, clobbered>>
    /\ UNCHANGED <<splitVars, imgVars, stitchVars, sendVars, renderVars>>

\* the fragment paths a run is working on
Working(r) ==
    IF pc[r] \in {"render", "collect", "stitch"}
    THEN {temp_image_paths[r][k] : k \in 1..Len(temp_image_paths[r])}
             \cup (IF pc[r] = "collect" THEN {FragPath(temp_dir[r], loop_i[r])} ELSE {})
    ELSE {}

\* lines 398-401 and 407-415: shutil.rmtree(temp_dir) unless cleanup is off,
\* temp_dir is "." or it is not there; a failure of rmtree is only printed
Cleanup(r) ==
    /\ pc[r] = "cleanup"
    /\ IF cleanup_temp_files /\ temp_dir[r] # Cwd /\ temp_dir[r] \in dirs
       THEN \E ok \in BOOLEAN :
              IF ok
              THEN /\ dirs' = {d \in dirs : ~Under(d, temp_dir[r])}
                   /\ files' = {f \in files : ~Under(f.dir, temp_dir[r])}
                   /\ clobbered' = clobbered \cup
                        {q \in runs \ {r} :
                            \E f \in files : /\ Under(f.dir, temp_dir[r])
                                             /\ PathOf(f) \in Working(q)}
              ELSE UNCHANGED <<dirs, files, clobbered>>
       ELSE UNCHANGED <<dirs, files, clobbered>>
    /\ pc' = [pc EXCEPT ![r] = "done"]
    /\ UNCHANGED <<runs, full_latex_input, latex_lines, temp_dir_base, temp_dir,
                   loop_i, success, temp_image_paths, all_renders_successful,
                   output_file, bgcolor, cleanup_temp_files, output_writable,
                   made_dirs, render_calls, stitch_calls, io_log>>
    /\ UNCHANGED <<splitVars, imgVars, stitchVars, sendVars, renderVars>>

\* the inputs of the runs: empty, blank, one segment, two segments, and the
\* bare delimiter
RunInputs == {<<>>, <<" ">>, <<"a">>, <<"a", ",", "a">>, <<",">>}

InitRunsCommon ==
    /\ pc = [r \in Runs |-> IF r \in runs THEN "start" ELSE "idle"]
    /\ latex_lines = [r \in Runs |-> <<>>]
    /\ temp_dir_base = [r \in Runs |-> Base]
    /\ temp_dir = [r \in Runs |-> Base]
    /\ loop_i = [r \in Runs |-> 0]
    /\ success = [r \in Runs |-> FALSE]
    /\ temp_image_paths = [r \in Runs |-> <<>>]
    /\ all_renders_successful = [r \in Runs |-> TRUE]
    /\ output_file = [r \in Runs |-> NoFile]
    /\ files = {}
    /\ made_dirs = [r \in Runs |-> {}]
    /\ render_calls = [r \in Runs |-> 0]
    /\ stitch_calls = [r \in Runs |-> <<>>]
    /\ io_log = {}
    /\ clobbered = {}
    /\ IdleSplit
    /\ IdleImg
    /\ IdleStitch

\* one run, under every configuration
Init ==
    /\ runs = {1}
    /\ full_latex_input \in {[r \in Runs |-> IF r = 1 THEN x ELSE <<>>] : x \in RunInputs}
    /\ bgcolor \in {"white", "bogus"}
    /\ cleanup_temp_files \in BOOLEAN
    /\ output_writable \in BOOLEAN
    /\ dirs \in {{Cwd}, {Cwd, Base}}
    /\ InitRunsCommon
    /\ IdleSend
    /\ IdleRender

Next ==
    \/ \E r \in runs : Begin(r)
    \/ \E r \in runs : MakeBase(r)
    \/ \E r \in runs : MakeDir(r)
    \/ \E r \in runs : RenderLine(r)
    \/ \E r \in runs : CollectPath(r)
    \/ \E r \in runs : Stitch(r)
    \/ \E r \in runs : Cleanup(r)

Spec == Init /\ [][Next]_vars

\* two concurrent runs (main.py hands each to the executor's thread pool)
InitConc ==
    /\ runs = {1, 2}
    /\ full_latex_input \in [Runs -> {<<"a">>, <<"a", ",", "a">>}]
    /\ bgcolor = "white"
    /\ cleanup_temp_files = TRUE
    /\ output_writable = TRUE
    /\ dirs = {Cwd}
    /\ InitRunsCommon
    /\ IdleSend
    /\ IdleRender

SpecConc == InitConc /\ [][Next]_vars

-----------------------------------------------------------------------------
(* Claims about the orchestrator                                           *)

\* run r returned through the empty-input branch
ReturnedWithNoSegments(r) == pc[r] = "done" /\ latex_lines[r] = <<>>

\* C8 as stated: when the Segmenter returns no segments the run writes a
\* placeholder image to output_path, creates no workspace directory, renders
\* no fragment and does not invoke the Compositor (read here for a bgcolor
\* that names a colour).
C8_AsStated_PlaceholderWritten ==
    \A r \in runs :
        (ReturnedWithNoSegments(r) /\ KnownColor(bgcolor))
        => /\ output_file[r] = Placeholder
           /\ made_dirs[r] = {}
           /\ render_calls[r] = 0
           /\ stitch_calls[r] = <<>>

\* C8 as amended: when the Segmenter returns no segments the run creates no
\* workspace directory, renders no fragment and does not invoke the
\* Compositor; it writes a placeholder image to output_path unless creating
\* or saving that image fails (a colour name matplotlib does not know, an
\* output path that cannot be written), and then it writes nothing.
C8_EmptyInputPlaceholder ==
    \A r \in runs :
        ReturnedWithNoSegments(r)
        => /\ made_dirs[r] = {}
           /\ render_calls[r] = 0
           /\ stitch_calls[r] = <<>>
           /\ dirs \subseteq {Cwd, Base}
           /\ files = {}
           /\ output_file[r] = IF KnownColor(bgcolor) /\ output_writable
                               THEN Placeholder ELSE NoFile

\* a run on a blank input has returned and left the placeholder
C8_Witness ==
    /\ pc[1] = "done"
    /\ full_latex_input[1] = <<" ">>
    /\ latex_lines[1] = <<>>
    /\ output_file[1] = Placeholder
    /\ dirs = {Cwd}

\* C9 as stated: with cleanup_temp_files true, every run that created its
\* workspace directory ends, returning or raising, with that directory
\* deleted.
C9_AsStated_WorkspaceDeleted ==
    \A r \in runs :
        (/\ cleanup_temp_files
         /\ pc[r] \in {"done", "raised"}
         /\ \E d \in made_dirs[r] : d.id = r)
        => \A d \in made_dirs[r] : d.id = r => d \notin dirs

\* C10 as stated: two concurrent runs share no mutable state: no fragment
\* path written by one run is written or opened by the other, and no run
\* loses a fragment it is working on to the other's cleanup, the runs that
\* fell back to the base directory included.
C10_AsStated_NothingShared ==
    /\ \A e1 \in io_log : \A e2 \in io_log :
          (e1.path = e2.path /\ e1.op = "write") => e1.run = e2.run
    /\ clobbered = {}

\* C11 as stated: whenever the render of a segment fails (the call returns
\* False), the error-indicator image is at the fragment's path, and no render
\* aborts the run (read here for a bgcolor that names a colour: the failure
\* is then the segment's own).
C11_AsStated_ErrorImageOnFailure ==
    \A r \in runs :
        KnownColor(bgcolor)
        => /\ pc[r] # "raised"
           /\ (pc[r] = "collect" /\ ~success[r])
              => \E f \in files : /\ PathOf(f) = FragPath(temp_dir[r], loop_i[r])
                                  /\ f.kind = "error_image"

-----------------------------------------------------------------------------
(* Message handler: LaTeXRendererPlugin._render_and_send (src/main.py)     *)

\* html.unescape over the model's characters: the entity "&nbsp;" (one token
\* here) becomes U+00A0, which str.strip() removes like a blank
Unescape(s) == [k \in 1..Len(s) |-> IF s[k] = "&nbsp;" THEN " " ELSE s[k]]

\* `not latex_input or not latex_input.strip()` (line 88)
BlankInput(s) == s = <<>> \/ Strip(s) = <<>>

\* the texts of event.plain_result
EmptyText == [kind |-> "plain", about |-> "empty"]
NoImageText == [kind |-> "plain", about |-> "no_image"]
ErrorText == [kind |-> "plain", about |-> "exception"]

\* event.image_result(output_filepath): the reply carries the file found there
ImageResult(file) == [kind |-> "image", about |-> file]

\* a plausible slip: the image is attached without looking for the file
ReplyAfterRunUnchecked(run_raised, file) ==
    IF run_raised THEN ErrorText ELSE ImageResult(file)

\* lines 117-126: what is yielded once the awaited run is over
ReplyAfterRun(run_raised, file) ==
    IF run_raised THEN ErrorText                 \* except Exception (124-126)
    ELSE IF file # NoFile THEN ImageResult(file) \* os.path.exists (117-119)
    ELSE NoImageText                             \* lines 120-122

\* lines 88-90: blank input is answered at once and the call returns
SendBlank ==
    /\ send_pc = "call"
    /\ BlankInput(send_latex_input)
    /\ replies' = Append(replies, EmptyText)
    /\ send_pc' = "returned"
    /\ UNCHANGED send_latex_input
    /\ UNCHANGED <<splitVars, imgVars, stitchVars, runVars, renderVars>>

\* lines 92-115: the stripped, unescaped input is handed to
\* process_and_render_latex on the executor, with a fresh output_filepath and
\* cleanup_temp_files True, and the call awaits it
SendInvoke ==
    /\ send_pc = "call"
    /\ ~BlankInput(send_latex_input)
    /\ runs' = runs \cup {1}
    /\ pc' = [pc EXCEPT ![1] = "start"]
    /\ full_latex_input' =
          [full_latex_input EXCEPT ![1] = Unescape(Strip(send_latex_input))]
    /\ send_pc' = "awaiting"
    /\ UNCHANGED <<send_latex_input, replies>>
    /\ UNCHANGED <<latex_lines, temp_dir_base, temp_dir, loop_i, success,
                   temp_image_paths, all_renders_successful, output_file,
                   bgcolor, cleanup_temp_files, output_writable, dirs, files,
                   made_dirs, render_calls, stitch_calls, io_log, clobbered>>
    /\ UNCHANGED <<splitVars, imgVars, stitchVars, renderVars>>

\* lines 117-126: the run has returned or raised, and the call yields its
\* one result
SendReply ==
    /\ send_pc = "awaiting"
    /\ pc[1] \in {"done", "raised"}
    /\ replies' = Append(replies, ReplyAfterRun(pc[1] = "raised", output_file[1]))
    /\ send_pc' = "returned"
    /\ UNCHANGED send_latex_input
    /\ UNCHANGED <<splitVars, imgVars, stitchVars, runVars, renderVars>>

\* the texts handed to _render_and_send: empty, blank, one and two segments
\* (bare or with blanks around), the bare delimiter, and an entity that
\* unescapes to a blank
SendInputs == {<<>>, <<" ">>, <<"a">>, <<" ", "a", " ">>, <<"a", ",", "a">>,
               <<",">>, <<"&nbsp;">>}

\* one call of _render_and_send under every configuration; main.py passes
\* cleanup_temp_files = True (line 113)
InitSend ==
    /\ send_pc = "call"
    /\ send_latex_input \in SendInputs
    /\ replies = <<>>
    /\ runs = {}
    /\ full_latex_input = [r \in Runs |-> <<>>]
    /\ bgcolor \in {"white", "bogus"}
    /\ cleanup_temp_files = TRUE
    /\ output_writable \in BOOLEAN
    /\ dirs \in {{Cwd}, {Cwd, Base}}
    /\ InitRunsCommon
    /\ IdleRender

NextSend ==
    \/ SendBlank
    \/ SendInvoke
    \/ \E r \in runs : Begin(r)
    \/ \E r \in runs : MakeBase(r)
    \/ \E r \in runs : MakeDir(r)
    \/ \E r \in runs : RenderLine(r)
    \/ \E r \in runs : CollectPath(r)
    \/ \E r \in runs : Stitch(r)
    \/ \E r \in runs : Cleanup(r)
    \/ SendReply

\* the executor runs the submitted function to its end and the event loop
\* resumes the awaiting coroutine: a step that can be taken is taken
SpecSend == InitSend /\ [][NextSend]_vars /\ WF_vars(NextSend)

-----------------------------------------------------------------------------
(* Claims about the message handler                                        *)

\* what C12 says of one state: never more than one reply; a call that has
\* returned has yielded exactly one; that reply is the image at
\* output_filepath exactly when the run returned and the file is there, and
\* a text otherwise; for a blank input the renderer was never invoked
C12_Replies ==
    /\ Len(replies) <= 1
    /\ send_pc = "returned"
       => /\ Len(replies) = 1
          /\ IF BlankInput(send_latex_input)
             THEN /\ replies[1] = EmptyText
                  /\ runs = {}
                  /\ pc[1] = "idle"
                  /\ render_calls[1] = 0
                  /\ output_file[1] = NoFile
             ELSE IF pc[1] = "done" /\ output_file[1] # NoFile
             THEN replies[1] = ImageResult(output_file[1])
             ELSE replies[1].kind = "plain"

\* C12: every call of _render_and_send yields exactly one reply and never
\* none: the image at output_filepath only when that file exists after the
\* run, a textual failure in every other case (blank input, no output file,
\* an exception of the run), and for blank input the renderer is not invoked;
\* and every call does come to its reply.
C12_ExactlyOneReply == []C12_Replies /\ <>(send_pc = "returned")

\* a call answered with the stitched image of two segments
C12_Witness ==
    /\ send_pc = "returned"
    /\ send_latex_input = <<"a", ",", "a">>
    /\ Len(replies) = 1
    /\ replies[1].kind = "image"
    /\ replies[1].about.kind = "stitched"

-----------------------------------------------------------------------------
(* Claims about the Fragment Renderer                                      *)

\* the call returned True for a segment that is the delimiter
DelimiterFragment ==
    /\ render_pc = "returned"
    /\ render_ret
    /\ IsDelimiterLine(latex_line_string, delimiter_char)

\* C13 as stated: after render_single_latex_line returns True for a
\* delimiter-only segment the fragment is at most max_delimiter_line_height
\* high, for every integer max_delimiter_line_height and every
\* autocrop_padding, and as wide as it was after cropping and padding (read
\* here for a resize that does not raise).
C13_AsStated_HeightAtMostCap ==
    (DelimiterFragment /\ ~resize_failed)
    => /\ fragment.height <= max_delimiter_line_height
       /\ fragment.width = cropped_size[1]

\* C13 as amended: after render_single_latex_line returns True for a
\* delimiter-only segment, and unless the resize raised (the fragment then
\* keeps its cropped size), the fragment is at most
\* max(1, max_delimiter_line_height) high: it keeps its cropped height when
\* that is within the cap and is max(1, cap) high otherwise; its width is
\* the width it had after cropping and padding.
C13_HeightAtMostCapOrOne ==
    DelimiterFragment
    => /\ fragment.kind = "image"
       /\ fragment.width = cropped_size[1]
       /\ IF resize_failed
          THEN /\ fragment.height = cropped_size[2]
               /\ fragment.height > max_delimiter_line_height
          ELSE /\ fragment.height <= Max(1, max_delimiter_line_height)
               /\ fragment.height =
                     IF cropped_size[2] <= max_delimiter_line_height
                     THEN cropped_size[2]
                     ELSE Max(1, max_delimiter_line_height)

\* a delimiter fragment that was 4 high after cropping is left 2 high under
\* the default cap
C13_Witness ==
    /\ DelimiterFragment
    /\ max_delimiter_line_height = 2
    /\ cropped_size = <<1, 4>>
    /\ fragment = ImageFile(1, 2)

-----------------------------------------------------------------------------
(* Claims about the orchestrator's render loop and the Compositor          *)

\* the paths line_0.png .. line_{n-1}.png of run r whose file exists, in
\* segment order
RECURSIVE ExistingFragmentsUpTo(_, _)
ExistingFragmentsUpTo(r, n) ==
    IF n = 0 THEN <<>>
    ELSE LET before == ExistingFragmentsUpTo(r, n - 1)
             path   == FragPath(temp_dir[r], n - 1)
         IN  IF Exists(files, path) THEN Append(before, path) ELSE before

ExistingFragments(r) == ExistingFragmentsUpTo(r, Len(latex_lines[r]))

\* C14: in a run with at least one segment, once the render loop is over the
\* Compositor is invoked if and only if some fragment file exists, once, with
\* exactly the fragment files that exist, in segment order, whatever each
\* render returned (the path of an absent file is left out); and a run that
\* ends without invoking it has written no final output file.
C14_CompositorGetsExistingFragments ==
    \A r \in runs :
        latex_lines[r] # <<>>
        => /\ Len(stitch_calls[r]) <= 1
           /\ pc[r] = "stitch"
              => /\ ExistingFragments(r) # <<>>
                 /\ temp_image_paths[r] = ExistingFragments(r)
                 /\ stitch_calls[r] = <<>>
           /\ pc[r] = "cleanup"
              => stitch_calls[r] = IF ExistingFragments(r) = <<>> THEN <<>>
                                   ELSE <<ExistingFragments(r)>>
           /\ (pc[r] = "done" /\ stitch_calls[r] = <<>>)
              => output_file[r] = NoFile

\* of two segments the first render failed and left the error image, the
\* second failed and left nothing: the Compositor got the first path alone
C14_Witness ==
    /\ pc[1] = "cleanup"
    /\ Len(latex_lines[1]) = 2
    /\ \E f \in files : PathOf(f) = FragPath(temp_dir[1], 0) /\ f.kind = "error_image"
    /\ ~Exists(files, FragPath(temp_dir[1], 1))
    /\ stitch_calls[1] = <<<<FragPath(temp_dir[1], 0)>>>>
    /\ ~all_renders_successful[1]

\* C15: the loaded images are pasted in input order at x = 0, the k-th of
\* them (k from 0) at y = the heights of the loaded images before it
\* + k * line_spacing; a missing or unopenable path is skipped and adds
\* neither height nor spacing.  With line_spacing >= 0 no two pasted images
\* overlap and the bottom of the last one is the canvas height.  (For a fill
\* that is 'none' or a colour name ImageColor knows.)
C15_PasteOffsets ==
    (/\ stitch_pc = "returned"
     /\ Loadable(image_paths) # <<>>
     /\ (bgcolor_fill = "none" \/ KnownColor(bgcolor_fill)))
    => LET imgs    == Loadable(image_paths)
           n       == Len(imgs)
           heights == [i \in 1..n |-> imgs[i].height]
           pastes  == stitched.pastes
       IN  /\ Len(pastes) = n
           /\ \A k \in 1..n :
                 /\ pastes[k].x = 0
                 /\ pastes[k].y = SumTo(heights, k - 1) + (k - 1) * line_spacing
                 /\ pastes[k].width = imgs[k].width
                 /\ pastes[k].height = imgs[k].height
           /\ line_spacing >= 0
              => /\ \A k \in 1..(n - 1) :
                       pastes[k].y + pastes[k].height <= pastes[k + 1].y
                 /\ pastes[n].y + pastes[n].height = stitched.canvas[2]

\* a missing path between images 10 and 20 high, spacing 5: the second image
\* is pasted at y = 15 and ends at the canvas height 35
C15_Witness ==
    /\ stitch_pc = "returned"
    /\ image_paths = <<ImageFile(1, 10), Missing, ImageFile(4, 20)>>
    /\ line_spacing = 5
    /\ Len(stitched.pastes) = 2
    /\ stitched.pastes[2].y = 15
    /\ stitched.canvas = <<4, 35>>

\* C16: the file auto_crop_image leaves and the fragment
\* render_single_latex_line leaves after the delimiter resize are at least
\* 1 x 1 (a blank or degenerate crop becomes a 1 x 1 image), for every
\* padding and every max_delimiter_line_height: no fragment handed on to the
\* Compositor has zero area.
C16_NoZeroAreaFragment ==
    /\ cropped_size # None
       => cropped_size[1] >= 1 /\ cropped_size[2] >= 1
    /\ (render_pc = "returned" /\ fragment # NoFile)
       => fragment.width >= 1 /\ fragment.height >= 1

\* a blank raster rendered for a delimiter line under a negative cap: the
\* crop left 1 x 1 and the resize kept it 1 x 1
C16_Witness ==
    /\ render_pc = "returned"
    /\ render_ret
    /\ raster = NewImage(2, 2, White)
    /\ line_bgcolor = "white"
    /\ IsDelimiterLine(latex_line_string, delimiter_char)
    /\ max_delimiter_line_height = -1
    /\ ~resize_failed
    /\ cropped_size = <<1, 1>>
    /\ fragment = ImageFile(1, 1)

=============================================================================
